---- MODULE Spec2Model ----
(***************************************************************************)
(* A model of the bookmap backend (src/app.py): the two book creation      *)
(* handlers, the upload fallback, the two query handlers, the reader page  *)
(* and the location normaliser.                                            *)
(*                                                                         *)
(* Text is a sequence of one-character strings, so that the string         *)
(* operations of the code (rsplit, lower, strip, startswith, the f-string  *)
(* that builds the local filename, secure_filename) are computed and not   *)
(* assumed.  A JSON value is a tagged record [t, v]:                       *)
(*    [t |-> "null"]             None                                     *)
(*    [t |-> "num", v |-> n]     a number                                  *)
(*    [t |-> "str", v |-> s]     a string, s a sequence of characters      *)
(*    [t |-> "arr", v |-> q]     a list, q a sequence of JSON values       *)
(*    [t |-> "obj", v |-> r]     a dict, r a record from keys to values    *)
(***************************************************************************)
EXTENDS Integers, Sequences, FiniteSets, TLC

\* ---------------------------------------------------------------- bounds

\* Multipart creation requests admitted over a run.
MaxRequests == 2
\* Highest value the clock (datetime.utcnow) reaches.
MaxClock == 2
\* Documents a run's creations may add to the collection.
MaxInserts == 2
\* Longest locations list handed to normalize_locations on its own.
MaxLocs == 3

\* ------------------------------------------------------------------ text

UpperChars == <<"A","B","C","D","E","F","G","H","I","J","K","L","M",
                "N","O","P","Q","R","S","T","U","V","W","X","Y","Z">>
LowerChars == <<"a","b","c","d","e","f","g","h","i","j","k","l","m",
                "n","o","p","q","r","s","t","u","v","w","x","y","z">>
DigitChars == <<"0","1","2","3","4","5","6","7","8","9">>
HexChars == <<"0","1","2","3","4","5","6","7","8","9","a","b","c","d","e","f">>

Range(s) == {s[i] : i \in DOMAIN s}

\* str.lower() on one character, and on a text.
LowerChar(c) ==
  IF \E i \in DOMAIN UpperChars : UpperChars[i] = c
  THEN LowerChars[CHOOSE i \in DOMAIN UpperChars : UpperChars[i] = c]
  ELSE c
Lower(s) == [i \in DOMAIN s |-> LowerChar(s[i])]

\* Python's str.isspace for the characters used here.
IsSpace(c) == c \in {" ", "\t", "\n"}

\* s[a..b], empty when a > b.
Slice(s, a, b) == IF a > b THEN <<>> ELSE SubSeq(s, a, b)

\* str.startswith(prefix)
StartsWith(s, prefix) ==
  /\ Len(prefix) <= Len(s)
  /\ SubSeq(s, 1, Len(prefix)) = prefix

\* `sub in s` for strings
IsSubstring(sub, s) ==
  \E i \in 1..(Len(s) + 1) :
    /\ i + Len(sub) - 1 <= Len(s)
    /\ Slice(s, i, i + Len(sub) - 1) = sub

\* str.strip(): leading and trailing whitespace removed.
Strip(s) ==
  LET keep == {i \in DOMAIN s : ~IsSpace(s[i])} IN
  IF keep = {} THEN <<>>
  ELSE LET a == CHOOSE i \in keep : \A j \in keep : i <= j
           b == CHOOSE i \in keep : \A j \in keep : j <= i
       IN SubSeq(s, a, b)

\* str.strip(chars): leading and trailing characters of the set removed.
StripChars(s, chars) ==
  LET keep == {i \in DOMAIN s : s[i] \notin chars} IN
  IF keep = {} THEN <<>>
  ELSE LET a == CHOOSE i \in keep : \A j \in keep : i <= j
           b == CHOOSE i \in keep : \A j \in keep : j <= i
       IN SubSeq(s, a, b)

\* The characters of s that satisfy Keep, in order.
RECURSIVE FilterChars(_, _)
FilterChars(s, keep) ==
  IF s = <<>> THEN <<>>
  ELSE (IF Head(s) \in keep THEN <<Head(s)>> ELSE <<>>) \o FilterChars(Tail(s), keep)

\* str.split(): the maximal runs of non-whitespace characters.
RECURSIVE SplitWords(_, _)
SplitWords(s, cur) ==
  IF s = <<>> THEN (IF cur = <<>> THEN <<>> ELSE <<cur>>)
  ELSE IF IsSpace(Head(s))
       THEN (IF cur = <<>> THEN <<>> ELSE <<cur>>) \o SplitWords(Tail(s), <<>>)
       ELSE SplitWords(Tail(s), Append(cur, Head(s)))

\* sep.join(words)
RECURSIVE Join(_, _)
Join(words, sep) ==
  IF words = <<>> THEN <<>>
  ELSE IF Len(words) = 1 THEN Head(words)
  ELSE Head(words) \o sep \o Join(Tail(words), sep)

\* s.replace(old, new) for a single character old.
ReplaceChar(s, old, new) == [i \in DOMAIN s |-> IF s[i] = old THEN new ELSE s[i]]

\* The decimal digits of a natural number.
RECURSIVE Digits(_)
Digits(n) == IF n < 10 THEN <<DigitChars[n + 1]>> ELSE Digits(n \div 10) \o <<DigitChars[(n % 10) + 1]>>

\* ------------------------------------------------------------ JSON values

JNull == [t |-> "null"]
JNum(n) == [t |-> "num", v |-> n]
JStr(s) == [t |-> "str", v |-> s]
JArr(q) == [t |-> "arr", v |-> q]
JObj(r) == [t |-> "obj", v |-> r]

\* The spelling of the keys the handlers test with `in`.
KeyChars ==
  [title |-> <<"t","i","t","l","e">>,
   author |-> <<"a","u","t","h","o","r">>,
   locations |-> <<"l","o","c","a","t","i","o","n","s">>]

\* bool(x)
Truthy(x) ==
  CASE x.t = "null" -> FALSE
    [] x.t = "num" -> x.v # 0
    [] x.t = "str" -> x.v # <<>>
    [] x.t = "arr" -> x.v # <<>>
    [] x.t = "obj" -> DOMAIN x.v # {}

\* Whether `key in x` raises TypeError: x is None or a number.
KeyTypeError(x) == x.t \in {"null", "num"}

\* `key in x`, for x a dict (a key), a list (an element) or a string (a substring).
In(key, x) ==
  CASE x.t = "obj" -> key \in DOMAIN x.v
    [] x.t = "arr" -> \E i \in DOMAIN x.v : x.v[i] = JStr(KeyChars[key])
    [] x.t = "str" -> IsSubstring(KeyChars[key], x.v)
    [] OTHER -> FALSE

\* dict.get(key), None when the key is absent.
Get(d, key) == IF key \in DOMAIN d THEN d[key] ELSE JNull

\* dict.get(key, default)
GetOr(d, key, default) == IF key \in DOMAIN d THEN d[key] ELSE default

\* d with d[key] = val (a dict assignment: the key is added or replaced).
Put(d, key, val) == [k \in DOMAIN d \cup {key} |-> IF k = key THEN val ELSE d[k]]

\* ------------------------------------------------- normalize_locations

\* Whether iterating x raises TypeError.
NotIterable(x) == x.t \in {"null", "num"}

\* How many items iterating x yields.
Arity(x) ==
  CASE x.t \in {"arr", "str"} -> Len(x.v)
    [] x.t = "obj" -> Cardinality(DOMAIN x.v)
    [] OTHER -> 0

\* Whether `lng, lat = loc["geo"]["coordinates"]` succeeds: every subscript
\* finds its key in a dict and the value unpacks into exactly two items.
Unpacks(loc) ==
  /\ loc.t = "obj"
  /\ "geo" \in DOMAIN loc.v
  /\ loc.v.geo.t = "obj"
  /\ "coordinates" \in DOMAIN loc.v.geo.v
  /\ ~NotIterable(loc.v.geo.v.coordinates)
  /\ Arity(loc.v.geo.v.coordinates) = 2

\* The i-th of the two items `lng, lat = c` binds.  The keys of a dict come in
\* insertion order, which a record does not keep: such a value is never fed in.
Item(c, i) ==
  CASE c.t = "arr" -> c.v[i]
    [] c.t = "str" -> JStr(<<c.v[i]>>)
    [] OTHER -> JNull

NormRecord(loc) ==
  LET c == loc.v.geo.v.coordinates IN
  [lat |-> Item(c, 2),
   lng |-> Item(c, 1),
   place_name |-> Get(loc.v, "place_name"),
   country |-> Get(loc.v, "country")]

\* NormStep with the try around the whole loop: a malformed entry ends it.
NormStepAbort(out, loc) == IF Unpacks(loc) THEN Append(out, NormRecord(loc)) ELSE <<>>

\* The loop body: one record appended, or the entry skipped by `except: pass`.
NormStep(out, loc) == IF Unpacks(loc) THEN Append(out, NormRecord(loc)) ELSE out

RECURSIVE NormLoop(_, _)
NormLoop(out, items) ==
  IF items = <<>> THEN out ELSE NormLoop(NormStep(out, Head(items)), Tail(items))

\* What `for loc in x` visits.  Iterating a string yields its characters and
\* iterating a dict its keys: strings either way, none of which has a "geo".
Items(x) ==
  CASE x.t = "arr" -> x.v
    [] x.t = "str" -> [i \in DOMAIN x.v |-> JStr(<<x.v[i]>>)]
    [] x.t = "obj" -> [i \in 1..Cardinality(DOMAIN x.v) |-> JStr(<<>>)]
    [] OTHER -> <<>>

\* normalize_locations(doc): [ok |-> TRUE, out |-> records], or ok = FALSE when
\* the for statement itself raises (locations is not iterable), which no
\* try block encloses.
normalize_locations(doc) ==
  LET locs == GetOr(doc, "locations", JArr(<<>>)) IN
  IF NotIterable(locs) THEN [ok |-> FALSE, out |-> <<>>]
  ELSE [ok |-> TRUE, out |-> NormLoop(<<>>, Items(locs))]

\* Location entries: well formed, and each way of being malformed.
Pt(x, y) == JObj([type |-> JStr(<<"P">>), coordinates |-> JArr(<<JNum(x), JNum(y)>>)])
Paris == JStr(<<"P","a","r","i","s">>)
France == JStr(<<"F","R">>)
LocGood == JObj([geo |-> Pt(2, 48), place_name |-> Paris, country |-> France])
LocBare == JObj([geo |-> Pt(20, 5)])
LocNoGeo == JObj([place_name |-> Paris])
LocGeoNull == JObj([geo |-> JNull, place_name |-> Paris])
LocNoCoords == JObj([geo |-> JObj([type |-> JStr(<<"P">>)])])
LocOneCoord == JObj([geo |-> JObj([coordinates |-> JArr(<<JNum(2)>>)])])
LocThreeCoords == JObj([geo |-> JObj([coordinates |-> JArr(<<JNum(2), JNum(48), JNum(0)>>)])])
LocCoordsNum == JObj([geo |-> JObj([coordinates |-> JNum(7)])])
LocCoordsStr == JObj([geo |-> JObj([coordinates |-> JStr(<<"2","8">>)])])
LocNotDict == JStr(<<"x">>)

LocEntries ==
  {LocGood, LocBare, LocNoGeo, LocGeoNull, LocNoCoords, LocOneCoord,
   LocThreeCoords, LocCoordsNum, LocCoordsStr, LocNotDict}

SeqsUpTo(S, n) == UNION {[1..k -> S] : k \in 0..n}

\* ------------------------------------------------------------- state

VARIABLES
  books,     \* the book collection: the stored documents, oldest first
  files,     \* the upload directory: local filename -> bytes
  writes,    \* the local filenames written, in the order of the writes
  now,       \* the clock datetime.utcnow() reads
  req,       \* the multipart creations: request -> where its handler stands
  resp,      \* the last answer of a handler that runs in one step
  session,   \* the client's session cookie
  normDoc,   \* the document handed to normalize_locations on its own
  normRes    \* and what the call returned

vars == <<books, files, writes, now, req, resp, session, normDoc, normRes>>

\* ---------------------------------------------------- upload helpers

ALLOWED_EXTENSIONS == {<<"p","d","f">>}

HasChar(s, c) == \E i \in DOMAIN s : s[i] = c

\* s.rsplit(c, 1)[1]: the text after the last c (s holds one).
AfterLast(s, c) ==
  LET i == CHOOSE k \in DOMAIN s : s[k] = c /\ \A j \in DOMAIN s : s[j] = c => j <= k
  IN Slice(s, i + 1, Len(s))

allowed_file(filename) ==
  /\ HasChar(filename, ".")
  /\ Lower(AfterLast(filename, ".")) \in ALLOWED_EXTENSIONS

\* werkzeug's secure_filename on ASCII text: path separators become spaces,
\* the words are joined by "_", every character outside [A-Za-z0-9_.-] is
\* dropped, and leading and trailing "." and "_" are stripped.
SafeChars == Range(UpperChars) \cup Range(LowerChars) \cup Range(DigitChars) \cup {"_", ".", "-"}
secure_filename(filename) ==
  StripChars(FilterChars(Join(SplitWords(ReplaceChar(filename, "/", " "), <<>>), <<"_">>), SafeChars),
             {".", "_"})

\* str() of the float timestamp of a whole number of clock ticks.
TimestampStr(t) == Digits(t) \o <<".","0">>

\* The local name without its timestamp.
UniqueNameBare(t, safe) == safe

\* f"{datetime.utcnow().timestamp()}_{safe}"
UniqueName(t, safe) == TimestampStr(t) \o <<"_">> \o safe

\* upload_result.get("secure_url") of a successful remote upload: the store
\* is configured with secure=True and keeps the file's name (use_filename).
SecureUrl(filename) == JStr(<<"h","t","t","p","s",":","/","/","r","e","s","/","r","a","w","/","u","p","l","o","a","d","/","b","o","o","k","m","a","p","/","p","d","f","s","/">> \o filename)

\* ------------------------------------------------------- the requests

Requests == 1..MaxRequests

EmptyRec == [k \in {} |-> JNull]

\* The "data" form field: absent, the empty string, text that is no JSON,
\* or the JSON text of val.
RawAbsent == [k |-> "absent"]
RawEmpty == [k |-> "empty"]
RawGarbage == [k |-> "garbage"]
RawJson(val) == [k |-> "json", val |-> val]

\* The "pdf_file" part: absent, or a filename and the bytes.
NoFile == [present |-> FALSE, filename |-> <<>>, bytes |-> 0]
Upload(filename, bytes) == [present |-> TRUE, filename |-> filename, bytes |-> bytes]

Atlas == JStr(<<"A","t","l","a","s">>)
Borges == JStr(<<"B","o","r","g","e","s">>)
BookValid == JObj([title |-> Atlas, author |-> Borges, locations |-> JArr(<<LocNoGeo, LocGood>>)])
BookEmptyLocs == JObj([title |-> Atlas, author |-> Borges, locations |-> JArr(<<>>)])
BookNullLocs == JObj([title |-> Atlas, author |-> Borges, locations |-> JNull])
BookNoTitle == JObj([author |-> Borges, locations |-> JArr(<<LocGood>>)])
BookNoAuthor == JObj([title |-> Atlas, locations |-> JArr(<<LocGood>>)])
BookNoLocs == JObj([title |-> Atlas, author |-> Borges])
BookOnlyTitle == JObj([title |-> Atlas])
\* JSON that is no object.
TextAll == JStr(<<"t","i","t","l","e"," ","a","u","t","h","o","r"," ","l","o","c","a","t","i","o","n","s">>)
ListAll == JArr(<<JStr(<<"t","i","t","l","e">>), JStr(<<"a","u","t","h","o","r">>), JStr(<<"l","o","c","a","t","i","o","n","s">>)>>)
ListTitle == JArr(<<JStr(<<"t","i","t","l","e">>)>>)

\* The bodies POST /api/book is sent.
JsonBodies ==
  {BookValid, BookEmptyLocs, BookNullLocs, BookNoTitle, BookNoAuthor, BookNoLocs,
   JNull, JNum(0), JNum(5), TextAll, ListAll, ListTitle}

\* The forms POST /api/book-with-pdf is sent: the data field and the file part.
Form(raw, file) == [raw |-> raw, file |-> file]
CPdf == Upload(<<"c",".","p","d","f">>, 1)
NotesTxt == Upload(<<"n","o","t","e","s",".","t","x","t">>, 1)
FormsSerial ==
  {Form(RawAbsent, CPdf), Form(RawEmpty, NoFile), Form(RawGarbage, CPdf),
   Form(RawJson(BookNoTitle), CPdf), Form(RawJson(BookOnlyTitle), NotesTxt),
   Form(RawJson(JNull), NotesTxt), Form(RawJson(JNum(5)), NoFile),
   Form(RawJson(TextAll), NoFile),
   Form(RawJson(BookValid), NoFile), Form(RawJson(BookValid), NotesTxt),
   Form(RawJson(BookValid), CPdf), Form(RawJson(BookEmptyLocs), CPdf)}
FormsThreaded ==
  {Form(RawAbsent, CPdf), Form(RawGarbage, CPdf), Form(RawJson(BookNoTitle), CPdf),
   Form(RawJson(JNull), NotesTxt), Form(RawJson(TextAll), CPdf),
   Form(RawJson(BookValid), NoFile), Form(RawJson(BookValid), Upload(<<>>, 1)),
   Form(RawJson(BookValid), NotesTxt), Form(RawJson(BookValid), Upload(<<"p","d","f">>, 1)),
   Form(RawJson(BookValid), Upload(<<"c",".","p","d","f",".","t","x","t">>, 1)),
   Form(RawJson(BookValid), CPdf), Form(RawJson(BookValid), Upload(<<"a"," ","b",".","P","D","F">>, 1)),
   Form(RawJson(BookEmptyLocs), Upload(<<"/","a","_","b",".","P","D","F">>, 1))}

\* --------------------------------------------------- answers of handlers

ErrorBody(msg) == JObj([error |-> JStr(msg)])
SuccessBody == JObj([status |-> JStr(<<"s","u","c","c","e","s","s">>)])

\* An unhandled exception is answered 500 by the framework, with its own page
\* (a null body here).

REQUIRED == <<"title", "author", "locations">>

\* FirstMissing with "locations" left out of the required fields.
FirstMissingTwo(data) ==
  IF ~In("title", data) THEN "title" ELSE IF ~In("author", data) THEN "author" ELSE ""

\* The loop over the required fields: the first one `not in data`, or "" when
\* none is missing.  Not to be asked of a value on which `in` raises.
FirstMissing(data) ==
  LET miss == {i \in DOMAIN REQUIRED : ~In(REQUIRED[i], data)} IN
  IF miss = {} THEN ""
  ELSE REQUIRED[CHOOSE i \in miss : \A j \in miss : i <= j]

RequiredError(field) == ErrorBody(KeyChars[field] \o <<" ","i","s"," ","r","e","q","u","i","r","e","d">>)

\* insert_one as an upsert: the newest stored document is replaced.
insert_oneReplace(col, data) ==
  IF col = <<>> THEN <<Put(data.v, "_id", [t |-> "oid", v |-> 1])>>
  ELSE [col EXCEPT ![Len(col)] = Put(data.v, "_id", col[Len(col)]["_id"])]

\* insert_one(data): the driver takes a mapping only (TypeError otherwise),
\* gives it a fresh _id and appends it to the collection.
Insertable(data) == data.t = "obj"
NewId(col) == [t |-> "oid", v |-> Len(col) + 1]
insert_one(col, data) == Append(col, Put(data.v, "_id", NewId(col)))

\* ------------------------------------------- POST /api/book (JSON only)

\* add_book_json on collection col: the answer and the collection after it.
add_book_json(col, body) ==
  LET data == IF Truthy(body) THEN body ELSE JObj(EmptyRec) IN
  IF KeyTypeError(data)
  THEN [status |-> 500, body |-> JNull, books |-> col]
  ELSE IF FirstMissing(data) # ""
  THEN [status |-> 400, body |-> RequiredError(FirstMissing(data)), books |-> col]
  ELSE IF ~Insertable(data)
  THEN [status |-> 500, body |-> JNull, books |-> col]
  ELSE [status |-> 201, body |-> SuccessBody, books |-> insert_one(col, data)]

AddBookJson ==
  /\ Len(books) < MaxInserts
  /\ \E body \in JsonBodies :
       LET out == add_book_json(books, body) IN
       /\ books' = out.books
       /\ resp' = [op |-> "add_book_json", input |-> body, status |-> out.status,
                   body |-> out.body,
                   calls |-> IF out.status = 201 THEN <<"insert_one">> ELSE <<>>]
  /\ UNCHANGED <<files, writes, now, req, session, normDoc, normRes>>

\* --------------------------------- POST /api/book-with-pdf (multipart)

IdleReq ==
  [pc |-> "idle", raw |-> RawAbsent, file |-> NoFile, data |-> JNull, pdf_url |-> JNull,
   remote |-> "none", safe |-> <<>>, ts |-> 0, unique |-> <<>>, status |-> 0, body |-> JNull, log |-> <<>>]

Answer(q, status, body) == [q EXCEPT !.pc = "done", !.status = status, !.body = body]

\* `pdf_file and pdf_file.filename`: a part with an empty filename is falsy.
HasFile(file) == file.present /\ file.filename # <<>>

\* Begin with the required fields left unchecked until after the upload.
BeginUploadFirst(raw, file) ==
  LET q0 == [IdleReq EXCEPT !.raw = raw, !.file = file] IN
  IF raw.k # "json" THEN Answer(q0, 400, ErrorBody(<<"M","i","s","s","i","n","g"," ","b","o","o","k"," ","d","a","t","a"," ","p","a","y","l","o","a","d">>))
  ELSE IF ~HasFile(file) THEN [q0 EXCEPT !.data = raw.val, !.pc = "persist"]
  ELSE IF ~allowed_file(file.filename) THEN Answer(q0, 400, ErrorBody(<<"O","n","l","y"," ","P","D","F"," ","a","l","l","o","w","e","d">>))
  ELSE [q0 EXCEPT !.data = raw.val, !.pc = "upload"]

\* Lines 149-169: the payload is parsed, the required fields are checked, then
\* the file's extension.  The handler stops with an answer, or goes on to the
\* remote upload (a file) or to the insert (no file).
Begin(raw, file) ==
  LET q0 == [IdleReq EXCEPT !.raw = raw, !.file = file] IN
  IF raw.k \in {"absent", "empty"}
  THEN Answer(q0, 400, ErrorBody(<<"M","i","s","s","i","n","g"," ","b","o","o","k"," ","d","a","t","a"," ","p","a","y","l","o","a","d">>))
  ELSE IF raw.k = "garbage"
  THEN Answer(q0, 400, ErrorBody(<<"I","n","v","a","l","i","d"," ","J","S","O","N"," ","i","n"," ","d","a","t","a">>))
  ELSE LET data == raw.val
           q1 == [q0 EXCEPT !.data = data, !.log = <<"validate">>]
       IN IF KeyTypeError(data) THEN Answer(q1, 500, JNull)
          ELSE IF FirstMissing(data) # ""
          THEN Answer(q1, 400, RequiredError(FirstMissing(data)))
          ELSE IF ~HasFile(file) THEN [q1 EXCEPT !.pc = "persist"]
          ELSE IF ~allowed_file(file.filename)
          THEN Answer(q1, 400, ErrorBody(<<"O","n","l","y"," ","P","D","F"," ","a","l","l","o","w","e","d">>))
          ELSE [q1 EXCEPT !.pc = "upload"]

\* Lines 172-180: the remote upload returns; its secure_url is the reference.
UploadOk(q) ==
  [q EXCEPT !.pc = "persist", !.remote = "ok", !.pdf_url = SecureUrl(q.file.filename),
            !.log = Append(@, "upload")]

\* UploadRaise without the except: the remote failure reaches the caller.
UploadRaiseSurfaced(q) ==
  Answer([q EXCEPT !.remote = "raised", !.log = Append(@, "upload")], 500, JNull)

\* Lines 172-182: the remote upload raises; the handler prints and goes on.
UploadRaise(q) == [q EXCEPT !.pc = "fallback", !.remote = "raised", !.log = Append(@, "upload")]

\* Lines 185-187: the local name, from the clock (read as t) and the
\* sanitised filename.
FallbackName(q, t) ==
  LET safe == secure_filename(q.file.filename) IN
  [q EXCEPT !.pc = "save", !.safe = safe, !.ts = t, !.unique = UniqueName(t, safe)]

\* Lines 188-189: the bytes are written under that name, replacing what was
\* there, and the name becomes the reference.
SaveFile(dir, q) == Put(dir, q.unique, q.file.bytes)
Saved(q) == [q EXCEPT !.pc = "persist", !.pdf_url = JStr(q.unique), !.log = Append(@, "save")]

\* Lines 192-196: the reference, if any, is attached and the document inserted.
\* Item assignment raises TypeError on a string or a list, and so does the
\* driver on a document that is no mapping.
Persist(q, col) ==
  IF Truthy(q.pdf_url) /\ q.data.t # "obj" THEN [q |-> Answer(q, 500, JNull), books |-> col]
  ELSE LET attach == Truthy(q.pdf_url)
           data == IF attach THEN JObj(Put(q.data.v, "pdf_file", q.pdf_url)) ELSE q.data
           q1 == [q EXCEPT !.data = data, !.log = IF attach THEN Append(@, "attach") ELSE @]
       IN IF ~Insertable(data) THEN [q |-> Answer(q1, 500, JNull), books |-> col]
          ELSE [q |-> Answer([q1 EXCEPT !.log = Append(@, "insert")], 201, SuccessBody),
                books |-> insert_one(col, data)]

\* The handler under a threaded server: one step per blocking call, the steps
\* of concurrent requests interleaved.  Requests are numbered in the order
\* they arrive; request r uploads the bytes r.
MpBegin(r) ==
  /\ req[r].pc = "idle"
  /\ \A k \in Requests : k < r => req[k].pc # "idle"
  /\ \E form \in FormsThreaded :
       req' = [req EXCEPT ![r] = Begin(form.raw, [form.file EXCEPT !.bytes = r])]
  /\ UNCHANGED <<books, files, writes, now, resp, session, normDoc, normRes>>

MpUploadOk(r) ==
  /\ req[r].pc = "upload"
  /\ req' = [req EXCEPT ![r] = UploadOk(req[r])]
  /\ UNCHANGED <<books, files, writes, now, resp, session, normDoc, normRes>>

MpUploadRaise(r) ==
  /\ req[r].pc = "upload"
  /\ req' = [req EXCEPT ![r] = UploadRaise(req[r])]
  /\ UNCHANGED <<books, files, writes, now, resp, session, normDoc, normRes>>

MpFallbackName(r) ==
  /\ req[r].pc = "fallback"
  /\ req' = [req EXCEPT ![r] = FallbackName(req[r], now)]
  /\ UNCHANGED <<books, files, writes, now, resp, session, normDoc, normRes>>

MpSave(r) ==
  /\ req[r].pc = "save"
  /\ files' = SaveFile(files, req[r])
  /\ writes' = Append(writes, [path |-> req[r].unique, by |-> r])
  /\ req' = [req EXCEPT ![r] = Saved(req[r])]
  /\ UNCHANGED <<books, now, resp, session, normDoc, normRes>>

MpPersist(r) ==
  /\ req[r].pc = "persist"
  /\ LET out == Persist(req[r], books) IN
     /\ req' = [req EXCEPT ![r] = out.q]
     /\ books' = out.books
  /\ UNCHANGED <<files, writes, now, resp, session, normDoc, normRes>>

\* Time passes.
Tick ==
  /\ now < MaxClock
  /\ now' = now + 1
  /\ UNCHANGED <<books, files, writes, req, resp, session, normDoc, normRes>>

\* The handler run from the request to its answer in one step, as a server
\* that takes one request at a time runs it.  remoteOk is whether the remote
\* upload, if the handler gets to it, returns.
RunToAnswer(raw, file, remoteOk, t, col, dir) ==
  LET q1 == Begin(raw, file)
      local == q1.pc = "upload" /\ ~remoteOk
      q2 == IF q1.pc # "upload" THEN q1
            ELSE IF remoteOk THEN UploadOk(q1)
            ELSE FallbackName(UploadRaise(q1), t)
      q3 == IF local THEN Saved(q2) ELSE q2
      out == IF q3.pc = "persist" THEN Persist(q3, col) ELSE [q |-> q3, books |-> col]
  IN [q |-> out.q, books |-> out.books, files |-> IF local THEN SaveFile(dir, q2) ELSE dir,
      wrote |-> IF local THEN <<[path |-> q2.unique, by |-> file.bytes]>> ELSE <<>>]

AddBookWithPdf ==
  /\ Len(books) < MaxInserts
  /\ \E form \in FormsSerial, remoteOk \in BOOLEAN :
       LET out == RunToAnswer(form.raw, form.file, remoteOk, now, books, files) IN
       /\ books' = out.books
       /\ files' = out.files
       /\ writes' = writes \o out.wrote
       /\ resp' = [op |-> "add_book_with_pdf", input |-> form,
                   status |-> out.q.status, body |-> out.q.body,
                   calls |-> IF Len(out.books) > Len(books) THEN <<"insert_one">> ELSE <<>>,
                   q |-> out.q]
  /\ UNCHANGED <<now, req, session, normDoc, normRes>>

\* ------------------------------------------------------- the queries

SEARCH_LIMIT == 150
BBOX_LIMIT == 300

Min2(a, b) == IF a <= b THEN a ELSE b

\* cursor.limit(n): the first n documents of the result.
Take(s, n) == SubSeq(s, 1, Min2(n, Len(s)))

\* A query string argument: absent, or its text.
NoArg == [present |-> FALSE, v |-> <<>>]
Arg(s) == [present |-> TRUE, v |-> s]
ArgOr(a, default) == IF a.present THEN a.v ELSE default

\* str(ObjectId): 24 hexadecimal digits.
RECURSIVE HexDigits(_)
HexDigits(n) == IF n < 16 THEN <<HexChars[n + 1]>> ELSE HexDigits(n \div 16) \o <<HexChars[(n % 16) + 1]>>
OidStr(n) == [i \in 1..(24 - Len(HexDigits(n))) |-> "0"] \o HexDigits(n)

\* ObjectId(text): 24 hexadecimal digits of either case, InvalidId otherwise
\* (the ids fed in hold no whitespace, which bytes.fromhex would skip).
IsHexChar(c) == LowerChar(c) \in Range(HexChars)
ValidOid(s) == Len(s) = 24 /\ \A i \in DOMAIN s : IsHexChar(s[i])
HexVal(c) == (CHOOSE i \in DOMAIN HexChars : HexChars[i] = LowerChar(c)) - 1
RECURSIVE HexNumber(_)
HexNumber(s) == IF s = <<>> THEN 0 ELSE 16 * HexNumber(SubSeq(s, 1, Len(s) - 1)) + HexVal(s[Len(s)])
ObjectId(s) == [t |-> "oid", v |-> HexNumber(s)]

\* The pattern of a $regex, case-insensitive, for the patterns used here:
\* a character stands for itself, "." for any character, and an unclosed
\* "(" does not compile (the store fails the query).
RegexCompiles(q) == ~HasChar(q, "(")
RegexFind(q, text) ==
  \E i \in 1..(Len(text) + 1) :
    /\ i + Len(q) - 1 <= Len(text)
    /\ \A k \in DOMAIN q : q[k] = "." \/ LowerChar(q[k]) = LowerChar(text[i + k - 1])

\* {field: {"$regex": q, "$options": "i"}}: a string field, or an element
\* of an array field, matches.
FieldMatches(doc, key, q) ==
  /\ key \in DOMAIN doc
  /\ \/ doc[key].t = "str" /\ RegexFind(q, doc[key].v)
     \/ /\ doc[key].t = "arr"
        /\ \E i \in DOMAIN doc[key].v : doc[key].v[i].t = "str" /\ RegexFind(q, doc[key].v[i].v)

SearchFields == {"title", "author", "tags", "category", "description"}
SearchMatches(doc, q) == \E key \in SearchFields : FieldMatches(doc, key, q)

\* The summary both queries answer with, for documents whose locations
\* normalise.
Summary(doc) ==
  [id |-> JStr(OidStr(doc["_id"].v)),
   title |-> Get(doc, "title"),
   author |-> Get(doc, "author"),
   year |-> Get(doc, "year"),
   description |-> Get(doc, "description"),
   tags |-> GetOr(doc, "tags", JArr(<<>>)),
   category |-> Get(doc, "category"),
   cover_url |-> Get(doc, "cover_url"),
   pdf_file |-> Get(doc, "pdf_file"),
   locations |-> normalize_locations(doc).out]

\* The loop over the cursor: the summaries, or 500 when normalize_locations
\* raises on one of the documents.
Shape(docs, calls, counted) ==
  IF \E i \in DOMAIN docs : ~normalize_locations(docs[i]).ok
  THEN [status |-> 500, body |-> [books |-> <<>>], calls |-> calls]
  ELSE LET out == [i \in DOMAIN docs |-> Summary(docs[i])] IN
       [status |-> 200,
        body |-> IF counted THEN [count |-> Len(out), books |-> out] ELSE [books |-> out],
        calls |-> calls]

\* search_books without the strip(): q is tested and sent as it came.
search_booksUntrimmed(col, arg) ==
  LET q == ArgOr(arg, <<>>) IN
  IF q = <<>> THEN [status |-> 200, body |-> [books |-> <<>>], calls |-> <<>>]
  ELSE IF ~RegexCompiles(q) THEN [status |-> 500, body |-> [books |-> <<>>], calls |-> <<"find">>]
  ELSE Shape(Take(SelectSeq(col, LAMBDA d : SearchMatches(d, q)), SEARCH_LIMIT), <<"find">>, FALSE)

\* GET /api/search
search_books(col, arg) ==
  LET q == Strip(ArgOr(arg, <<>>)) IN
  IF q = <<>> THEN [status |-> 200, body |-> [books |-> <<>>], calls |-> <<>>]
  ELSE IF ~RegexCompiles(q) THEN [status |-> 500, body |-> [books |-> <<>>], calls |-> <<"find">>]
  ELSE Shape(Take(SelectSeq(col, LAMBDA d : SearchMatches(d, q)), SEARCH_LIMIT), <<"find">>, FALSE)

\* float(text) for the texts used here: digits, a sign before them allowed,
\* whitespace around them ignored; float(None) and any other text raise.
IsNumber(s) ==
  LET d == IF s # <<>> /\ Head(s) = "-" THEN Tail(s) ELSE s IN
  d # <<>> /\ \A i \in DOMAIN d : d[i] \in Range(DigitChars)
RECURSIVE DecNumber(_)
DecNumber(s) ==
  IF s = <<>> THEN 0
  ELSE 10 * DecNumber(SubSeq(s, 1, Len(s) - 1))
       + (CHOOSE i \in DOMAIN DigitChars : DigitChars[i] = s[Len(s)]) - 1
FloatRaises(a) == ~a.present \/ ~IsNumber(Strip(a.v))
Float(a) ==
  LET s == Strip(a.v) IN IF Head(s) = "-" THEN 0 - DecNumber(Tail(s)) ELSE DecNumber(s)

\* {"locations.geo": {"$geoWithin": {"$box": [[x1, y1], [x2, y2]]}}}: some
\* location's point lies in the rectangle, its border included.
PointIn(geo, x1, y1, x2, y2) ==
  /\ geo.t = "obj"
  /\ "coordinates" \in DOMAIN geo.v
  /\ geo.v.coordinates.t = "arr"
  /\ Len(geo.v.coordinates.v) = 2
  /\ \A i \in 1..2 : geo.v.coordinates.v[i].t = "num"
  /\ x1 <= geo.v.coordinates.v[1].v /\ geo.v.coordinates.v[1].v <= x2
  /\ y1 <= geo.v.coordinates.v[2].v /\ geo.v.coordinates.v[2].v <= y2
InBox(doc, x1, y1, x2, y2) ==
  /\ "locations" \in DOMAIN doc
  /\ doc.locations.t = "arr"
  /\ \E i \in DOMAIN doc.locations.v :
       /\ doc.locations.v[i].t = "obj"
       /\ "geo" \in DOMAIN doc.locations.v[i].v
       /\ PointIn(doc.locations.v[i].v.geo, x1, y1, x2, y2)

\* GET /api/books-in-bbox
books_in_bbox(col, a) ==
  IF FloatRaises(a.min_lng) \/ FloatRaises(a.min_lat) \/ FloatRaises(a.max_lng) \/ FloatRaises(a.max_lat)
  THEN [status |-> 400, body |-> ErrorBody(<<"I","n","v","a","l","i","d"," ","B","B","O","X">>), calls |-> <<>>]
  ELSE Shape(Take(SelectSeq(col, LAMBDA d : InBox(d, Float(a.min_lng), Float(a.min_lat),
                                                  Float(a.max_lng), Float(a.max_lat))),
                  BBOX_LIMIT),
             <<"find">>, TRUE)

\* books_col.find_one({"_id": oid}): the document's position, 0 for None.
find_one(col, oid) ==
  IF \E i \in DOMAIN col : col[i]["_id"] = oid
  THEN CHOOSE i \in DOMAIN col : col[i]["_id"] = oid
  ELSE 0

\* url_for("serve_pdf", filename=name)
ServePdfUrl(name) == JStr(<<"/","p","d","f","/">> \o name)

\* read_book with InvalidId caught after the lookup was issued.
read_bookLookupFirst(col, book_id) ==
  IF ~ValidOid(book_id) THEN [status |-> 404, body |-> JNull, calls |-> <<"find_one">>]
  ELSE LET i == find_one(col, ObjectId(book_id)) IN
       IF i = 0 THEN [status |-> 404, body |-> JNull, calls |-> <<"find_one">>]
       ELSE [status |-> 200, body |-> [book |-> col[i], pdf_url |-> Get(col[i], "pdf_file")],
             calls |-> <<"find_one">>]

\* GET /book/<book_id>
read_book(col, book_id) ==
  IF ~ValidOid(book_id) THEN [status |-> 404, body |-> JNull, calls |-> <<>>]
  ELSE LET i == find_one(col, ObjectId(book_id)) IN
       IF i = 0 THEN [status |-> 404, body |-> JNull, calls |-> <<"find_one">>]
       ELSE LET ref == Get(col[i], "pdf_file") IN
            IF ~Truthy(ref)
            THEN [status |-> 200, body |-> [book |-> col[i], pdf_url |-> JNull], calls |-> <<"find_one">>]
            ELSE IF ref.t # "str"
            THEN [status |-> 500, body |-> JNull, calls |-> <<"find_one">>]
            ELSE [status |-> 200,
                  body |-> [book |-> col[i],
                            pdf_url |-> IF StartsWith(ref.v, <<"h","t","t","p">>) THEN ref ELSE ServePdfUrl(ref.v)],
                  calls |-> <<"find_one">>]

\* GET /pdf/<filename>
serve_pdf(dir, filename) ==
  IF filename \in DOMAIN dir
  THEN [status |-> 200, body |-> JNum(dir[filename]), calls |-> <<>>]
  ELSE [status |-> 404, body |-> JNull, calls |-> <<>>]

\* /login, /logout and /: the session gate.
ADMIN_PASSWORD == "admin123"
DefaultEmail == <<"a","d","m","i","n","@","e","x","a","m","p","l","e",".","c","o","m">>
login(sess, method, email, password) ==
  IF method = "POST" /\ password = ADMIN_PASSWORD
  THEN [status |-> 302, body |-> JStr(<<"/">>), calls |-> <<>>,
        session |-> [logged |-> TRUE,
                     user_email |-> IF Strip(email) # <<>> THEN Strip(email) ELSE DefaultEmail]]
  ELSE [status |-> 200,
        body |-> IF method = "POST" THEN ErrorBody(<<"I","n","v","a","l","i","d"," ","p","a","s","s","w","o","r","d">>) ELSE JNull,
        calls |-> <<>>, session |-> sess]
logout(sess) ==
  [status |-> 302, body |-> JStr(<<"/","l","o","g","i","n">>), calls |-> <<>>, session |-> [logged |-> FALSE]]
home(sess) ==
  IF ~sess.logged THEN [status |-> 302, body |-> JStr(<<"/","l","o","g","i","n">>), calls |-> <<>>]
  ELSE [status |-> 200, body |-> JStr(sess.user_email), calls |-> <<>>]

\* ---- the handlers above as steps of a server taking one request at a time

SearchArgs == {NoArg, Arg(<<>>), Arg(<<" "," ">>), Arg(<<" ","a","t","l","a","s"," ">>), Arg(<<"B",".","r">>), Arg(<<"(">>),
   Arg(<<"P","I","R","S","I","G">>)}

SearchBooks ==
  /\ \E arg \in SearchArgs :
       LET out == search_books(books, arg) IN
       resp' = [op |-> "search_books", input |-> arg, status |-> out.status,
                body |-> out.body, calls |-> out.calls]
  /\ UNCHANGED <<books, files, writes, now, req, session, normDoc, normRes>>

Box(a, b, c, d) == [min_lng |-> a, min_lat |-> b, max_lng |-> c, max_lat |-> d]
BoxArgs ==
  {Box(Arg(<<"0">>), Arg(<<"0">>), Arg(<<"1","0">>), Arg(<<" ","5","0">>)),
   Box(Arg(<<"-","5">>), Arg(<<"0">>), Arg(<<"3","0">>), Arg(<<"1","0">>)),
   Box(Arg(<<"0">>), Arg(<<"0">>), Arg(<<"a","b","c">>), Arg(<<"1","0">>)),
   Box(Arg(<<"0">>), NoArg, Arg(<<"1","0">>), Arg(<<"1","0">>))}

BooksInBbox ==
  /\ \E a \in BoxArgs :
       LET out == books_in_bbox(books, a) IN
       resp' = [op |-> "books_in_bbox", input |-> a, status |-> out.status,
                body |-> out.body, calls |-> out.calls]
  /\ UNCHANGED <<books, files, writes, now, req, session, normDoc, normRes>>

BookIds ==
  {OidStr(1), OidStr(2), OidStr(4095), <<"a","b","c">>, <<"0","0","0","0","0","0","0","0","0","0","0","0","0","0","0","0","0","0","0","0","0","0","0","z">>,
   <<"0","0","0","0","0","0","0","0","0","0","0","0","0","0","0","0","0","0","0","0","0","0","0","A">>}

ReadBook ==
  /\ \E id \in BookIds :
       LET out == read_book(books, id) IN
       resp' = [op |-> "read_book", input |-> id, status |-> out.status,
                body |-> out.body, calls |-> out.calls]
  /\ UNCHANGED <<books, files, writes, now, req, session, normDoc, normRes>>

ServePdf ==
  /\ \E name \in DOMAIN files \cup {<<"c",".","p","d","f">>} :
       LET out == serve_pdf(files, name) IN
       resp' = [op |-> "serve_pdf", input |-> name, status |-> out.status,
                body |-> out.body, calls |-> out.calls]
  /\ UNCHANGED <<books, files, writes, now, req, session, normDoc, normRes>>

Login ==
  /\ \E method \in {"GET", "POST"}, email \in {<<>>, <<" ","u","@","x"," ">>}, password \in {ADMIN_PASSWORD, "guess"} :
       LET out == login(session, method, email, password) IN
       /\ resp' = [op |-> "login", input |-> [method |-> method, email |-> email, password |-> password],
                   status |-> out.status, body |-> out.body, calls |-> out.calls]
       /\ session' = out.session
  /\ UNCHANGED <<books, files, writes, now, req, normDoc, normRes>>

Logout ==
  /\ LET out == logout(session) IN
     /\ resp' = [op |-> "logout", input |-> <<>>, status |-> out.status, body |-> out.body,
                 calls |-> out.calls]
     /\ session' = out.session
  /\ UNCHANGED <<books, files, writes, now, req, normDoc, normRes>>

Home ==
  /\ LET out == home(session) IN
     resp' = [op |-> "home", input |-> <<>>, status |-> out.status, body |-> out.body,
              calls |-> out.calls]
  /\ UNCHANGED <<books, files, writes, now, req, session, normDoc, normRes>>

\* ------------------------------------------------------ specifications

NoResp == [op |-> "none"]
NoSession == [logged |-> FALSE]

\* After start-up: an empty collection, an empty upload directory, no request.
Init ==
  /\ books = <<>>
  /\ files = EmptyRec
  /\ writes = <<>>
  /\ now = 1
  /\ req = [r \in Requests |-> IdleReq]
  /\ resp = NoResp
  /\ session = NoSession
  /\ normDoc = EmptyRec
  /\ normRes = [called |-> FALSE]

\* The whole interface, one request at a time.
Next ==
  \/ AddBookJson
  \/ AddBookWithPdf
  \/ SearchBooks
  \/ BooksInBbox
  \/ ReadBook
  \/ ServePdf
  \/ Login
  \/ Logout
  \/ Home

Spec == Init /\ [][Next]_vars

\* Concurrent multipart creations under a threaded server.
NextUpload ==
  \/ \E r \in Requests : MpBegin(r)
  \/ \E r \in Requests : MpUploadOk(r)
  \/ \E r \in Requests : MpUploadRaise(r)
  \/ \E r \in Requests : MpFallbackName(r)
  \/ \E r \in Requests : MpSave(r)
  \/ \E r \in Requests : MpPersist(r)
  \/ Tick

SpecUpload == Init /\ [][NextUpload]_vars

\* The read handlers over a library that earlier creations left: empty, small,
\* or larger than the search limit.
SmallLibrary == 3
LargeLibrary == 230
BookTagged ==
  [title |-> JStr(<<"M","a","p","s">>), author |-> Borges, locations |-> JArr(<<LocBare>>),
   tags |-> JArr(<<JStr(<<"a","t","l","a","s">>)>>), year |-> JNum(1941), pdf_file |-> JStr(UniqueName(1, <<"c",".","p","d","f">>))]
BookZen == [title |-> JStr(<<"Z","e","n">>), author |-> JStr(<<"P","i","r","s","i","g">>), locations |-> JArr(<<LocNoGeo>>)]
Stored(i) ==
  Put(CASE i % 3 = 1 -> Put(BookValid.v, "pdf_file", SecureUrl(<<"c",".","p","d","f">>))
        [] i % 3 = 2 -> BookTagged
        [] OTHER -> BookZen,
      "_id", [t |-> "oid", v |-> i])
Library(n) == [i \in 1..n |-> Stored(i)]

InitRead ==
  /\ books \in {Library(n) : n \in {0, SmallLibrary, LargeLibrary}}
  /\ files \in {EmptyRec, Put(EmptyRec, UniqueName(1, <<"c",".","p","d","f">>), 1)}
  /\ writes = <<>>
  /\ now = 1
  /\ req = [r \in Requests |-> IdleReq]
  /\ resp = NoResp
  /\ session = NoSession
  /\ normDoc = EmptyRec
  /\ normRes = [called |-> FALSE]

NextRead ==
  \/ SearchBooks
  \/ BooksInBbox
  \/ ReadBook
  \/ ServePdf

SpecRead == InitRead /\ [][NextRead]_vars

\* The normaliser on its own: a stored document with any locations list of
\* at most MaxLocs entries, then the call.
InitNorm ==
  /\ books = <<>>
  /\ files = EmptyRec
  /\ writes = <<>>
  /\ now = 1
  /\ req = [r \in Requests |-> IdleReq]
  /\ resp = NoResp
  /\ session = NoSession
  /\ normDoc \in {[title |-> Atlas, locations |-> JArr(q)] : q \in SeqsUpTo(LocEntries, MaxLocs)}
  /\ normRes = [called |-> FALSE]

Normalize ==
  /\ ~normRes.called
  /\ normRes' = [called |-> TRUE, res |-> normalize_locations(normDoc)]
  /\ UNCHANGED <<books, files, writes, now, req, resp, session, normDoc>>

NextNorm == Normalize

SpecNorm == InitNorm /\ [][NextNorm]_vars

\* ------------------------------------------------------------ properties

\* The value at loc["geo"]["coordinates"], when both keys are there.
HasCoordinates(loc) ==
  /\ loc.t = "obj"
  /\ "geo" \in DOMAIN loc.v
  /\ loc.v.geo.t = "obj"
  /\ "coordinates" \in DOMAIN loc.v.geo.v
IsPair(loc) ==
  /\ HasCoordinates(loc)
  /\ loc.v.geo.v.coordinates.t \in {"arr", "str"}
  /\ Len(loc.v.geo.v.coordinates.v) = 2

\* The positions of the entries of a locations list that hold a pair, and
\* the k-th of them in the order of the list.
PairPositions(entries) == {i \in DOMAIN entries : IsPair(entries[i])}
KthPair(entries, k) ==
  CHOOSE i \in PairPositions(entries) :
    Cardinality({j \in PairPositions(entries) : j <= i}) = k

\* C8: normalize_locations does not raise on a locations list and returns one
\* record per entry whose geo.coordinates has two elements, in the order of
\* the list: lng the first element and lat the second, place_name and country
\* the entry's (None when absent); an entry without geo, without coordinates
\* or with coordinates of another arity gives no record and hides no other.
C8_OneRecordPerPair ==
  normRes.called =>
    LET entries == normDoc.locations.v
        out == normRes.res.out
    IN /\ normRes.res.ok
       /\ Len(out) = Cardinality(PairPositions(entries))
       /\ \A k \in DOMAIN out :
            LET e == entries[KthPair(entries, k)]
                c == e.v.geo.v.coordinates
            IN /\ out[k].lng = (IF c.t = "arr" THEN c.v[1] ELSE JStr(<<c.v[1]>>))
               /\ out[k].lat = (IF c.t = "arr" THEN c.v[2] ELSE JStr(<<c.v[2]>>))
               /\ out[k].place_name = (IF "place_name" \in DOMAIN e.v THEN e.v.place_name ELSE JNull)
               /\ out[k].country = (IF "country" \in DOMAIN e.v THEN e.v.country ELSE JNull)
               /\ DOMAIN out[k] = {"lat", "lng", "place_name", "country"}

\* A list with a malformed entry before and after a well-formed one, each
\* well-formed entry answered.
C8_Witness ==
  /\ normRes.called
  /\ normDoc.locations.v = <<LocNoGeo, LocGood, LocThreeCoords>>
  /\ Len(normRes.res.out) = 1
  /\ normRes.res.out[1].lat = JNum(48)

\* A field of the book data: a key of a JSON object.
HasField(data, f) == data.t = "obj" /\ f \in DOMAIN data.v
LacksField(data) == \E i \in DOMAIN REQUIRED : ~HasField(data, REQUIRED[i])
FirstLacking(data) ==
  REQUIRED[CHOOSE i \in DOMAIN REQUIRED :
             /\ ~HasField(data, REQUIRED[i])
             /\ \A j \in 1..(i - 1) : HasField(data, REQUIRED[j])]

\* The book data of the last creation request, when it carried any: the JSON
\* body (an absent or null body counts as {}), or the parsed data field.
CreationAnswered ==
  \/ resp.op = "add_book_json"
  \/ resp.op = "add_book_with_pdf" /\ resp.input.raw.k = "json"
BookData ==
  IF resp.op = "add_book_json"
  THEN (IF resp.input = JNull THEN JObj(EmptyRec) ELSE resp.input)
  ELSE resp.input.raw.val

\* C1: a creation request, on either endpoint, whose book data lacks title,
\* author or locations is answered 400 with "<field> is required" for the
\* first such field in that order, and inserts nothing.
C1_MissingFieldRejected ==
  (CreationAnswered /\ LacksField(BookData)) =>
    /\ resp.status = 400
    /\ resp.body = ErrorBody(KeyChars[FirstLacking(BookData)] \o <<" ","i","s"," ","r","e","q","u","i","r","e","d">>)
    /\ resp.calls = <<>>

\* C2, as claimed: every stored document has a title, an author and a
\* locations array that is not empty.
C2_NonEmptyLocations ==
  \A i \in DOMAIN books :
    /\ {"title", "author", "locations"} \subseteq DOMAIN books[i]
    /\ books[i].locations.t = "arr"
    /\ books[i].locations.v # <<>>

\* C2, amended: every stored document has the keys title, author and
\* locations; the value of locations is the caller's, an empty array included.
C2_RequiredKeysStored ==
  \A i \in DOMAIN books : {"title", "author", "locations"} \subseteq DOMAIN books[i]

\* A book with an empty locations array is in the collection, answered 201.
C2_Witness ==
  /\ resp.op \in {"add_book_json", "add_book_with_pdf"}
  /\ resp.status = 201
  /\ books # <<>>
  /\ books[Len(books)].locations = JArr(<<>>)

CreationOps == {"add_book_json", "add_book_with_pdf"}

\* C5: the collection only grows at its end, by one document per creation
\* answered 201, and no other request changes it.
C5_Step ==
  /\ Len(books') >= Len(books)
  /\ SubSeq(books', 1, Len(books)) = books
  /\ Len(books') <= Len(books) + 1
  /\ Len(books') = Len(books) + 1 <=> (resp'.op \in CreationOps /\ resp'.status = 201)
C5_AppendOnly == [][C5_Step]_vars

\* A creation is refused and a query answered with documents in the collection.
C5_Witness ==
  /\ Len(books) = MaxInserts
  /\ resp.op = "search_books"
  /\ resp.status = 200
  /\ Len(resp.body.books) = MaxInserts

\* q is absent, empty or whitespace only.
Blank(arg) == ~arg.present \/ \A i \in DOMAIN arg.v : arg.v[i] \in {" ", "\t", "\n"}

\* C6: a search whose q is absent, empty or only whitespace is answered
\* {books: []} with no query issued; any other q issues exactly one query,
\* and an answer holds at most 150 books.
C6_BlankSearchShortCircuits ==
  resp.op = "search_books" =>
    /\ Blank(resp.input) => /\ resp.status = 200
                            /\ resp.body.books = <<>>
                            /\ resp.calls = <<>>
    /\ ~Blank(resp.input) => /\ Len(resp.calls) = 1
                             /\ Len(resp.body.books) <= 150

\* More than 150 stored books match and 150 are answered.
C6_Witness ==
  /\ resp.op = "search_books"
  /\ ~Blank(resp.input)
  /\ Cardinality({i \in DOMAIN books : SearchMatches(books[i], Strip(resp.input.v))}) > 150
  /\ Len(resp.body.books) = 150

\* The store's id format: 24 hexadecimal digits.
HexDigitSet ==
  {"0","1","2","3","4","5","6","7","8","9","a","b","c","d","e","f","A","B","C","D","E","F"}
WellFormedId(s) == Len(s) = 24 /\ \A i \in DOMAIN s : s[i] \in HexDigitSet

\* C7: the reader page answers an id that is not well formed with 404 and no
\* query; a well-formed id that no document has, with 404 after one lookup.
C7_BadIdNeverQueries ==
  resp.op = "read_book" =>
    /\ ~WellFormedId(resp.input) => resp.status = 404 /\ resp.calls = <<>>
    /\ (WellFormedId(resp.input) /\ \A i \in DOMAIN books : OidStr(books[i]["_id"].v) # Lower(resp.input))
         => resp.status = 404 /\ resp.calls = <<"find_one">>

\* A malformed id is answered 404 while the collection holds books.
C7_Witness ==
  /\ resp.op = "read_book"
  /\ ~WellFormedId(resp.input)
  /\ Len(resp.input) = 24
  /\ resp.status = 404
  /\ books # <<>>

\* ---- the multipart handler, request by request

Done(r) == req[r].pc = "done"
Happened(r, e) == \E i \in DOMAIN req[r].log : req[r].log[i] = e
\* Where event e stands in the handler's run (each happens at most once).
At(r, e) == CHOOSE i \in DOMAIN req[r].log : req[r].log[i] = e

ValidBook(data) == data.t = "obj" /\ {"title", "author", "locations"} \subseteq DOMAIN data.v

\* The text after the last dot is "pdf" in any case.
PdfExtensions ==
  {<<a, b, c>> : a \in {"p", "P"}, b \in {"d", "D"}, c \in {"f", "F"}}
IsPdfName(name) ==
  \E i \in DOMAIN name :
    /\ name[i] = "."
    /\ \A j \in (i + 1)..Len(name) : name[j] # "."
    /\ Slice(name, i + 1, Len(name)) \in PdfExtensions

\* The request carries a file: a part with a filename.
CarriesFile(r) == req[r].file.present /\ req[r].file.filename # <<>>

\* The document request r inserted is in the collection with this pdf_file.
PersistedWith(r, ref) ==
  \E i \in DOMAIN books :
    /\ "pdf_file" \in DOMAIN books[i]
    /\ books[i].pdf_file = JStr(ref)
    /\ \A k \in DOMAIN req[r].raw.val.v : books[i][k] = req[r].raw.val.v[k]

\* s is made of the characters a sanitised filename may hold.
Sanitised(s) ==
  \A i \in DOMAIN s : s[i] \in SafeChars

\* C3: a multipart creation with valid book data and a .pdf file ends 201
\* whether the remote upload raises or returns.  When it raises, the persisted
\* pdf_file is <timestamp>_<sanitised name>, the name written in the upload
\* directory; when it returns, the persisted pdf_file is the remote reference
\* and starts with "http".
C3_RemoteFailureAbsorbed ==
  \A r \in Requests :
    (Done(r) /\ req[r].raw.k = "json" /\ ValidBook(req[r].raw.val)
       /\ CarriesFile(r) /\ IsPdfName(req[r].file.filename)) =>
      /\ req[r].status = 201
      /\ req[r].remote \in {"ok", "raised"}
      /\ req[r].remote = "raised" =>
           /\ req[r].unique = TimestampStr(req[r].ts) \o <<"_">> \o req[r].safe
           /\ req[r].safe # <<>>
           /\ Sanitised(req[r].safe)
           /\ IsSubstring(req[r].safe, req[r].unique)
           /\ req[r].unique \in DOMAIN files
           /\ PersistedWith(r, req[r].unique)
      /\ req[r].remote = "ok" =>
           /\ req[r].pdf_url.t = "str"
           /\ SubSeq(req[r].pdf_url.v, 1, 4) = <<"h", "t", "t", "p">>
           /\ PersistedWith(r, req[r].pdf_url.v)

\* The remote upload of "a b.PDF" raised and the request ended 201 with the
\* local name of "a_b.PDF".
C3_Witness ==
  \E r \in Requests :
    /\ Done(r)
    /\ req[r].remote = "raised"
    /\ req[r].status = 201
    /\ req[r].file.filename = <<"a", " ", "b", ".", "P", "D", "F">>
    /\ req[r].safe = <<"a", "_", "b", ".", "P", "D", "F">>
    /\ PersistedWith(r, req[r].unique)

\* C4: a multipart creation whose file does not end in .pdf (in any case) is
\* answered 400 with no remote upload attempted, no local file written and no
\* document inserted.
C4_NonPdfRejected ==
  \A r \in Requests :
    (Done(r) /\ CarriesFile(r) /\ ~IsPdfName(req[r].file.filename)) =>
      /\ req[r].status = 400
      /\ ~Happened(r, "upload")
      /\ ~Happened(r, "save")
      /\ ~Happened(r, "insert")

\* C9, as claimed: the reference is attached before the required fields are
\* checked, and the insert follows the check.
C9_AttachBeforeValidation ==
  \A r \in Requests :
    (CarriesFile(r) /\ Happened(r, "attach")) =>
      /\ Happened(r, "validate") => At(r, "attach") < At(r, "validate")
      /\ Happened(r, "insert") => Happened(r, "validate") /\ At(r, "validate") < At(r, "insert")

\* C9, amended: the required fields are checked first, then the upload runs,
\* then its reference is attached, then the document is inserted; a request
\* whose data fails the check never reaches the upload.
C9_ValidationBeforeUpload ==
  \A r \in Requests :
    /\ Happened(r, "upload") => Happened(r, "validate") /\ At(r, "validate") < At(r, "upload")
    /\ Happened(r, "attach") => Happened(r, "upload") /\ At(r, "upload") < At(r, "attach")
    /\ Happened(r, "insert") => Happened(r, "validate") /\ At(r, "validate") < At(r, "insert")
    /\ (Happened(r, "attach") /\ Happened(r, "insert")) => At(r, "attach") < At(r, "insert")
    /\ (req[r].raw.k = "json" /\ req[r].raw.val.t = "obj" /\ ~ValidBook(req[r].raw.val))
         => ~Happened(r, "upload")

\* A request with a file ran check, upload, attach, insert in that order.
C9_Witness ==
  \E r \in Requests :
    /\ Done(r)
    /\ CarriesFile(r)
    /\ req[r].log = <<"validate", "upload", "attach", "insert">>

\* The requests that wrote a local file, and the last write to a path.
Wrote(r) == Happened(r, "save")
LastWrite(p) ==
  writes[CHOOSE i \in DOMAIN writes :
           writes[i].path = p /\ \A j \in DOMAIN writes : writes[j].path = p => j <= i]

\* C10: two multipart creations that both took the local fallback wrote the
\* same path exactly when their timestamps and their sanitised filenames both
\* coincide; nothing serialises the writes: a path holds the bytes of the
\* last write to it, and two requests that wrote the same path persist the
\* same pdf_file.
C10_CollisionOnlyOnSameToken ==
  /\ \A r1, r2 \in Requests :
       (r1 # r2 /\ Wrote(r1) /\ Wrote(r2)) =>
         /\ req[r1].unique = req[r2].unique
              <=> (req[r1].ts = req[r2].ts /\ req[r1].safe = req[r2].safe)
         /\ (req[r1].unique = req[r2].unique /\ Done(r1) /\ Done(r2)
               /\ req[r1].status = 201 /\ req[r2].status = 201)
              => /\ PersistedWith(r1, req[r1].unique)
                 /\ PersistedWith(r2, req[r1].unique)
                 /\ Cardinality({i \in DOMAIN books :
                                   "pdf_file" \in DOMAIN books[i]
                                   /\ books[i].pdf_file = JStr(req[r1].unique)}) >= 2
  /\ DOMAIN files = {writes[i].path : i \in DOMAIN writes}
  /\ \A p \in DOMAIN files : files[p] = req[LastWrite(p).by].file.bytes

\* Two requests with different filenames wrote the same path in the same
\* instant; the file holds the second one's bytes and both books name it.
C10_Witness ==
  \E r1, r2 \in Requests :
    /\ r1 # r2
    /\ Done(r1) /\ Done(r2)
    /\ req[r1].status = 201 /\ req[r2].status = 201
    /\ req[r1].file.filename # req[r2].file.filename
    /\ req[r1].unique = req[r2].unique
    /\ Len(writes) = 2 /\ writes[1].by = r1 /\ writes[2].by = r2
    /\ files[req[r1].unique] = req[r2].file.bytes
    /\ files[req[r1].unique] # req[r1].file.bytes
    /\ Len(books) = 2
    /\ books[1].pdf_file = books[2].pdf_file
====
